---- MODULE Spec2Model ----
(***************************************************************************)
(* Model of eba_validation.py: the EBA XBRL filing rules (version 4.1)     *)
(* checked by a RaptorXML+XBRL script after the host engine has validated  *)
(* an instance.  The rule predicates eba_x_y are operators from the        *)
(* instance (and script parameters, options) to the ordered findings they  *)
(* report, together with the exception, if any, that ends them.  The two   *)
(* callbacks on_xbrl_finished_dts and on_xbrl_finished are the actions.    *)
(***************************************************************************)
EXTENDS Integers, Sequences, FiniteSets, TLC

VARIABLES
    instance,       \* the instance object the host hands to on_xbrl_finished
    script_params,  \* job.script_params
    options,        \* job.options
    error_log,      \* job.error_log.errors, in report order
    raised,         \* exception that left the last callback ("" if none)
    marks           \* length of error_log at the start of each on_xbrl_finished

vars == <<instance, script_params, options, error_log, raised, marks>>

(***************************************************************************)
(* Bounds of the model.                                                    *)
(***************************************************************************)
MaxContexts == 3
MaxUnits == 2
MaxFacts == 3
MaxMonetaryFacts == 3
MaxCalls == 2
MaxHostErrors == 2
MaxIdContexts == 2
MaxRefs == 2
MaxFootnoteLinks == 2
MaxFootnotes == 2
MaxElements == 4
MaxIndicators == 3
MaxLocators == 2

(***************************************************************************)
(* Generic helpers.                                                        *)
(***************************************************************************)
Range(s) == {s[i] : i \in 1..Len(s)}

RECURSIVE Concat(_)
Concat(ss) == IF ss = <<>> THEN <<>> ELSE Head(ss) \o Concat(Tail(ss))

\* sequences over S of length 0..n
SeqsUpTo(S, n) == UNION {[1..k -> S] : k \in 0..n}

\* a mapping that is assigned instead of defaulted: d[key] = value
SetDefaultOverwrite(d, key, value) ==
    IF key \in DOMAIN d THEN [d EXCEPT ![key] = value] ELSE d @@ (key :> value)

\* dict.setdefault(key, value): the mapping after the call
SetDefault(d, key, value) == IF key \in DOMAIN d THEN d ELSE d @@ (key :> value)

EmptyDict == <<>>

(***************************************************************************)
(* Findings: xbrl.Error.create(message, location=..., children=..., ...).  *)
(* text is the message template, args the objects substituted into it.     *)
(***************************************************************************)
NoLocation == <<"none", 0>>

Error_create(text, location, args, children, severity) ==
    [text |-> text, location |-> location, args |-> args,
     children |-> children, severity |-> severity]

Detail(text) == Error_create(text, NoLocation, <<>>, <<>>, "INFO")

\* the outcome of a rule predicate: the findings reported before it ended and
\* the exception that ended it ("" when it returned)
Ok(findings) == [out |-> findings, exc |-> ""]
Raise(findings, exc) == [out |-> findings, exc |-> exc]

(***************************************************************************)
(* The instance object graph the host engine builds.  Contexts, units and  *)
(* facts are referred to by their position in document order (the object's *)
(* identity); a fact holds the positions of its context and unit (unit 0   *)
(* is Python's None, a non-numeric fact).                                  *)
(*   context: [id_length, scheme, identifier, period, segment, scenario,   *)
(*             non_xdt, dims], period: [kind, date, tz, type],             *)
(*             dims: [CCA, CUS] the explicit members ("" when absent)      *)
(*   unit:    [measure]                                                    *)
(*   fact:    [concept, context, unit, xml_lang, id, precision, xsi_nil,   *)
(*             value_length, normalized_value]                             *)
(***************************************************************************)
FilingIndicator == "find:filingIndicator"

\* taxonomy concepts known to the DTS; is_item is isinstance(c, xbrl.taxonomy.Item)
Concepts ==
    [name : {"eba_met:mi1", "eba_met:mi2"}, is_item : {TRUE}, monetary : {TRUE}, numeric : {TRUE}, string : {FALSE}]
    \cup [name : {"eba_met:pi1"}, is_item : {TRUE}, monetary : {FALSE}, numeric : {TRUE}, string : {FALSE}]
    \cup [name : {"eba_met:si1", FilingIndicator}, is_item : {TRUE}, monetary : {FALSE}, numeric : {FALSE}, string : {TRUE}]

Concept(name) == CHOOSE c \in Concepts : c.name = name

is_monetary_unit(unit) == unit.measure \in {"iso4217:USD", "iso4217:EUR"}

is_pure(unit) == unit.measure = "xbrli:pure"

iso4217_currency(unit) ==
    IF unit.measure = "iso4217:USD" THEN "USD"
    ELSE IF unit.measure = "iso4217:EUR" THEN "EUR" ELSE ""

entity_identifier_aspect_value(context) ==
    [scheme |-> context.scheme, identifier |-> context.identifier]

period_aspect_value(context) ==
    [kind |-> context.period.kind, date |-> context.period.date, tz |-> context.period.tz]

is_instant(period) == period.kind = "instant"

is_forever(period) == period.kind = "forever"

\* xbrl.ConstraintSet(context): the aspect values of the context, by value
ConstraintSetOfContext(context) ==
    [entity |-> entity_identifier_aspect_value(context),
     period |-> period_aspect_value(context),
     segment |-> context.segment,
     non_xdt |-> context.non_xdt,
     dims |-> context.dims]

\* xbrl.ConstraintSet(unit): the unit aspect value, by value
ConstraintSetOfUnit(unit) == [unit |-> unit.measure]

\* a filter by the identity of the context object
FilterByContextIdentity(inst, context) ==
    SelectSeq([i \in 1..Len(inst.facts) |-> i], LAMBDA f : inst.facts[f].context = context)

\* instance.facts.filter(context): the facts whose context aspects equal those
\* of the given context (positions of the facts, in document order)
FilterByContext(inst, context) ==
    SelectSeq([i \in 1..Len(inst.facts) |-> i],
              LAMBDA f : ConstraintSetOfContext(inst.contexts[inst.facts[f].context])
                         = ConstraintSetOfContext(inst.contexts[context]))

\* instance.facts.filter(unit): the facts whose unit aspect equals the unit's
FilterByUnit(inst, unit) ==
    SelectSeq([i \in 1..Len(inst.facts) |-> i],
              LAMBDA f : inst.facts[f].unit # 0
                         /\ ConstraintSetOfUnit(inst.units[inst.facts[f].unit])
                            = ConstraintSetOfUnit(inst.units[unit]))

\* instance.facts.filter(concept)
FilterByConcept(inst, name) ==
    SelectSeq([i \in 1..Len(inst.facts) |-> i],
              LAMBDA f : inst.facts[f].concept = name)

(***************************************************************************)
(* The document tree.  inst.elements[n] is an element node, node 1 the     *)
(* document element:                                                       *)
(*   [children, prefix, value_is_qname, value_prefix, attributes,          *)
(*    namespace_attributes]                                                *)
(*   attribute: [ns, local_name, prefix, value_is_qname, value_prefix]     *)
(*   namespace attribute: [local_name, normalized_value]                   *)
(***************************************************************************)
DocumentElement == 1

\* a traversal that takes the next element from the front of the pending list
RECURSIVE dfs_loop_queue(_, _)
dfs_loop_queue(elements, stack) ==
    IF stack = <<>> THEN <<>>
    ELSE <<Head(stack)>> \o dfs_loop_queue(elements, Tail(stack) \o elements[Head(stack)].children)

\* dfs(elem): the elements of the subtree in the order the generator yields them
RECURSIVE dfs_loop(_, _)
dfs_loop(elements, stack) ==
    IF stack = <<>> THEN <<>>
    ELSE LET elem == stack[Len(stack)]
         IN  <<elem>> \o dfs_loop(elements,
                                  SubSeq(stack, 1, Len(stack) - 1) \o elements[elem].children)

dfs(elements, elem) == dfs_loop(elements, <<elem>>)

\* elem.find_attribute(QName(local_name, ns)): position of the attribute, 0 for None
find_attribute(element, ns, local_name) ==
    IF \E a \in 1..Len(element.attributes) :
           element.attributes[a].ns = ns /\ element.attributes[a].local_name = local_name
    THEN CHOOSE a \in 1..Len(element.attributes) :
           element.attributes[a].ns = ns /\ element.attributes[a].local_name = local_name
    ELSE 0

\* str.upper() on the encoding names of the model
Upper(text) ==
    IF text = "utf-8" THEN "UTF-8"
    ELSE IF text = "iso-8859-1" THEN "ISO-8859-1" ELSE text

(***************************************************************************)
(* Filing syntax rules.                                                    *)
(***************************************************************************)
eba_1_4(inst) ==
    Ok(IF Upper(inst.encoding) # "UTF-8"
       THEN << Error_create("[EBA.1.4] Character encoding of XBRL instance documents.",
                            <<"uri", 0>>, <<>>,
                            << Detail("XBRL instance documents SHOULD NOT use the XML standalone declaration.") >>,
                            "ERROR") >>
       ELSE <<>>)

RECURSIVE eba_1_6_loop(_, _, _)
eba_1_6_loop(inst, todo, used_indictors) ==
    IF todo = <<>> THEN <<>>
    ELSE
    LET indicator == Head(todo)
        context == inst.contexts[inst.facts[indicator].context]
        value == inst.facts[indicator].normalized_value
        map1 == SetDefault(used_indictors, value, indicator)
    IN  (IF context.segment \/ context.scenario
         THEN << Error_create("[EBA.1.6] Filing indicators.", <<"fact", indicator>>, <<>>,
                              << Detail("The context referenced by the filing indicator elements MUST NOT contain xbrli:segment or xbrli:scenario elements.") >>,
                              "ERROR") >>
         ELSE <<>>)
        \o (IF map1[value] # indicator
            THEN << Error_create("[EBA.1.6.1] Multiple filing indicators for the same reporting unit.",
                                 <<"fact", indicator>>, <<>>,
                                 << Detail("Reported XBRL instances MUST contain only one filing indicator element for a given reporting unit.") >>,
                                 "ERROR") >>
            ELSE <<>>)
        \o (IF value \notin inst.dts.available_indicators
            THEN << Error_create("[EBA.1.6.3] Filing indicator codes.", <<"fact", indicator>>, <<>>,
                                 << Detail("The values of filing indicators MUST only be those given by the label resources with the role filing-indicator-code.") >>,
                                 "ERROR") >>
            ELSE <<>>)
        \o eba_1_6_loop(inst, Tail(todo), map1)

eba_1_6(inst) == Ok(eba_1_6_loop(inst, FilterByConcept(inst, FilingIndicator), EmptyDict))

eba_1_13(inst) ==
    Ok(IF inst.standalone # ""
       THEN << Error_create("[EBA.1.13] Standalone Document Declaration.",
                            <<"uri", 0>>, <<>>,
                            << Detail("XBRL instance documents MUST use UTF-8 encoding.") >>,
                            "WARNING") >>
       ELSE <<>>)

eba_1_14(inst) ==
    LET root == inst.elements[DocumentElement]
        first == find_attribute(root, "xsi", "schemaLocation")
        attr == IF first = 0 THEN find_attribute(root, "xsi", "noNamespaceSchemaLocation")
                ELSE first
    IN  Ok(IF attr # 0
           THEN << Error_create("[EBA.1.14] @xsd:schemaLocation and @xsd:noNamespaceSchemaLocation.",
                                <<"attribute", attr>>, <<>>,
                                << Detail("@xsd:schemaLocation or @xsd:noNamespaceSchemaLocation MUST NOT be used.") >>,
                                "ERROR") >>
           ELSE <<>>)

eba_1_15(inst, opts) ==
    Ok(IF "xinclude" \in DOMAIN opts /\ opts["xinclude"] = TRUE
       THEN << Error_create("[EBA.1.15] XInclude.", <<"uri", 0>>, <<>>,
                            << Detail("XBRL instance documents MUST NOT use the XInclude specification (xi:include element)."),
                               Error_create("Hint: Disable XInclude support with the --xinclude=false option.",
                                            NoLocation, <<>>, <<>>, "OTHER") >>,
                            "ERROR") >>
       ELSE <<>>)

(***************************************************************************)
(* Instance syntax rules.                                                  *)
(***************************************************************************)
eba_2_1(inst) ==
    LET order == dfs(inst.elements, DocumentElement)
    IN  Ok(Concat([k \in 1..Len(order) |->
            LET xml_base_attr == find_attribute(inst.elements[order[k]], "xml", "base")
            IN  IF xml_base_attr # 0
                THEN << Error_create("[EBA.2.1] The existence of {xml_base} is not permitted.",
                                     NoLocation, << <<"element", order[k]>>, <<"attribute", xml_base_attr>> >>,
                                     << Detail("The attribute @xml:base MUST NOT appear in any instance document.") >>,
                                     "ERROR") >>
                ELSE <<>>]))

\* str.startswith('http://') on a schemaRef href [scheme, path]
StartsWithHttp(href) == href.scheme = "http://"

\* line 136 reads the name schema_refs, which no scope of the module defines
eba_2_2(inst) ==
    IF inst.schema_refs = <<>> THEN Raise(<<>>, "StopIteration")
    ELSE IF ~StartsWithHttp(inst.schema_refs[1]) THEN Raise(<<>>, "NameError")
    ELSE Ok(<<>>)

eba_2_3(inst) ==
    Ok(Concat([r \in 1..Len(inst.schema_refs) |->
        IF r > 1
        THEN << Error_create("[EBA.2.3] Only one {schemaRef} element is allowed per instance document.",
                             NoLocation, << <<"schemaRef", r>> >>,
                             << Detail("Any reported XBRL instance document MUST contain only one xbrli:xbrl/link:schemaRef element.") >>,
                             "ERROR") >>
        ELSE <<>>]))

eba_2_4(inst) ==
    Ok([r \in 1..Len(inst.linkbase_refs) |->
        Error_create("[EBA.2.4] The use of {linkbaseRef} element is not permitted.",
                     NoLocation, << <<"linkbaseRef", r>> >>,
                     << Detail("The element link:linkbaseRef MUST NOT be used in any instance document.") >>,
                     "ERROR")])

eba_2_25(inst) ==
    Ok(Concat([l \in 1..Len(inst.footnote_links) |->
        [r \in 1..inst.footnote_links[l].resources |->
            Error_create("[EBA.2.25] XBRL {footnote} are ignored by EBA.",
                         NoLocation, << <<"footnoteLink", l>>, <<"footnote", r>> >>,
                         << Detail("A footnote MUST not have any impact on the regulatory content of a report.") >>,
                         "WARNING")]]))

(***************************************************************************)
(* Context related rules.                                                  *)
(***************************************************************************)
RECURSIVE eba_2_7_loop(_, _, _)
eba_2_7_loop(inst, i, aspects_map) ==
    IF i > Len(inst.contexts) THEN <<>>
    ELSE
    LET context == inst.contexts[i]
        unused ==
            IF FilterByContext(inst, i) = <<>>
            THEN << Error_create("[EBA.2.7] No unused or duplicated {context} nodes.",
                                 NoLocation, << <<"context", i>> >>,
                                 << Detail("Unused xbrli:context nodes SHOULD NOT be present in the instance.") >>,
                                 "WARNING") >>
            ELSE <<>>
        key == ConstraintSetOfContext(context)
        map1 == SetDefault(aspects_map, key, <<>>)
        duplicates == map1[key]
    IN  IF duplicates # <<>>
        THEN unused
             \o << Error_create("[EBA.2.7] No unused or duplicated {context} nodes.",
                                NoLocation, << <<"context", i>> >>,
                                << Detail("An instance document SHOULD NOT contain duplicated context."),
                                   Error_create("Context {context} is a duplicate of context {context2}",
                                                NoLocation, << <<"context", i>>, <<"context", duplicates[1]>> >>,
                                                <<>>, "OTHER") >>,
                                "WARNING") >>
             \o eba_2_7_loop(inst, i + 1, map1)
        ELSE unused
             \o eba_2_7_loop(inst, i + 1, [map1 EXCEPT ![key] = Append(duplicates, i)])

eba_2_7(inst) == Ok(eba_2_7_loop(inst, 1, EmptyDict))

eba_2_9(inst) ==
    IF inst.contexts = <<>> THEN Raise(<<>>, "StopIteration")
    ELSE
    LET single_identifier == entity_identifier_aspect_value(inst.contexts[1])
    IN  Ok(Concat([i \in 1..Len(inst.contexts) |->
            IF entity_identifier_aspect_value(inst.contexts[i]) # single_identifier
            THEN << Error_create("[EBA.2.9] Single reporter per instance.",
                                 <<"identifier", i>>, <<>>,
                                 << Detail("All xbrli:identifier content and @scheme attributes in an instance MUST be identical.") >>,
                                 "ERROR") >>
            ELSE <<>>]))

\* eba_2_13 without the is_instant() test
eba_2_13_PeriodOnly(inst) ==
    IF inst.contexts = <<>> THEN Raise(<<>>, "StopIteration")
    ELSE
    LET single_period == period_aspect_value(inst.contexts[1])
    IN  Ok(Concat([i \in 1..Len(inst.contexts) |->
            IF period_aspect_value(inst.contexts[i]) # single_period
            THEN << Error_create("[EBA.2.13] XBRL {period} consistency.",
                                 NoLocation, << <<"period", i>> >>,
                                 << Detail("All xbrl periods in a report instance MUST refer to the (same) reference date instant.") >>,
                                 "ERROR") >>
            ELSE <<>>]))

eba_2_13(inst) ==
    IF inst.contexts = <<>> THEN Raise(<<>>, "StopIteration")
    ELSE
    LET single_period == period_aspect_value(inst.contexts[1])
    IN  Ok(Concat([i \in 1..Len(inst.contexts) |->
            IF ~is_instant(inst.contexts[i].period)
               \/ period_aspect_value(inst.contexts[i]) # single_period
            THEN << Error_create("[EBA.2.13] XBRL {period} consistency.",
                                 NoLocation, << <<"period", i>> >>,
                                 << Detail("All xbrl periods in a report instance MUST refer to the (same) reference date instant.") >>,
                                 "ERROR") >>
            ELSE <<>>]))

(***************************************************************************)
(* Script parameters: a dict from parameter name to the text given on the  *)
(* command line (a sequence of characters).  PyInt is Python's int(text).  *)
(***************************************************************************)
Digits == {"0", "1", "2", "3", "4", "5", "6", "7", "8", "9"}

DigitValue(ch) ==
    CASE ch = "0" -> 0 [] ch = "1" -> 1 [] ch = "2" -> 2 [] ch = "3" -> 3
      [] ch = "4" -> 4 [] ch = "5" -> 5 [] ch = "6" -> 6 [] ch = "7" -> 7
      [] ch = "8" -> 8 [] ch = "9" -> 9

RECURSIVE DecimalValue(_)
DecimalValue(ds) ==
    IF ds = <<>> THEN 0
    ELSE 10 * DecimalValue(SubSeq(ds, 1, Len(ds) - 1)) + DigitValue(ds[Len(ds)])

RECURSIVE Strip(_)
Strip(text) ==
    IF text # <<>> /\ Head(text) = " " THEN Strip(Tail(text))
    ELSE IF text # <<>> /\ text[Len(text)] = " " THEN Strip(SubSeq(text, 1, Len(text) - 1))
    ELSE text

\* int(text): [ok |-> TRUE, value |-> n], or ok = FALSE where Python raises ValueError
PyInt(text) ==
    LET t == Strip(text)
        signed == t # <<>> /\ Head(t) \in {"+", "-"}
        ds == IF signed THEN Tail(t) ELSE t
    IN  IF ds # <<>> /\ \A i \in 1..Len(ds) : ds[i] \in Digits
        THEN [ok |-> TRUE,
              value |-> IF signed /\ Head(t) = "-" THEN 0 - DecimalValue(ds) ELSE DecimalValue(ds)]
        ELSE [ok |-> FALSE, value |-> 0]

DefaultMaxIdLength == 50
DefaultMaxStringLength == 100

\* int(params.get(name, default)): the default is already an int
IntParam(params, name, default) ==
    IF name \in DOMAIN params THEN PyInt(params[name]) ELSE [ok |-> TRUE, value |-> default]

\* a limit that the id length may not even reach
eba_2_6_AtLimit(inst, params) ==
    LET max_id_length == IntParam(params, "max-id-length", DefaultMaxIdLength)
    IN  IF ~max_id_length.ok THEN Raise(<<>>, "ValueError")
        ELSE Ok(Concat([i \in 1..Len(inst.contexts) |->
            IF inst.contexts[i].id_length >= max_id_length.value
            THEN << Error_create("[EBA.2.6] The length of the {id} attribute should be limited to the necessary characters.",
                                 NoLocation, << <<"context/@id", i>> >>,
                                 << Detail("Semantics SHOULD NOT be expressed in the xbrli:context/@id attribute.") >>,
                                 "WARNING") >>
            ELSE <<>>]))

eba_2_6(inst, params) ==
    LET max_id_length == IntParam(params, "max-id-length", DefaultMaxIdLength)
    IN  IF ~max_id_length.ok THEN Raise(<<>>, "ValueError")
        ELSE Ok(Concat([i \in 1..Len(inst.contexts) |->
            IF inst.contexts[i].id_length > max_id_length.value
            THEN << Error_create("[EBA.2.6] The length of the {id} attribute should be limited to the necessary characters.",
                                 NoLocation, << <<"context/@id", i>> >>,
                                 << Detail("Semantics SHOULD NOT be expressed in the xbrli:context/@id attribute.") >>,
                                 "WARNING") >>
            ELSE <<>>]))

eba_2_10(inst) ==
    Ok(Concat([i \in 1..Len(inst.contexts) |->
        LET period == inst.contexts[i].period
        IN  IF is_instant(period) /\ (period.tz \/ period.type # "date")
            THEN << Error_create("[EBA.2.10] The {period} date elements reported must be valid.",
                                 NoLocation, << <<"period", i>> >>,
                                 << Detail("All xbrli:period date elements MUST be valid against the xs:date data type, and reported without a timezone.") >>,
                                 "ERROR") >>
            ELSE <<>>]))

eba_2_11(inst) ==
    Ok(Concat([i \in 1..Len(inst.contexts) |->
        IF is_forever(inst.contexts[i].period)
        THEN << Error_create("[EBA.2.11] The existence of {forever} is not permitted.",
                             NoLocation, << <<"forever", i>> >>,
                             << Detail("The element xbrli:forever MUST NOT be used.") >>,
                             "ERROR") >>
        ELSE <<>>]))

eba_2_14(inst) ==
    Ok(Concat([i \in 1..Len(inst.contexts) |->
        IF inst.contexts[i].segment
        THEN << Error_create("[EBA.2.14] The existence of {segment} is not permitted.",
                             NoLocation, << <<"segment", i>> >>,
                             << Detail("xbrli:segment elements MUST NOT be used.") >>,
                             "ERROR") >>
        ELSE <<>>]))

eba_2_15(inst) ==
    Ok(Concat([i \in 1..Len(inst.contexts) |->
        IF inst.contexts[i].scenario /\ inst.contexts[i].non_xdt
        THEN << Error_create("[EBA.2.15] Restrictions on the use of the {scenario} element.",
                             NoLocation, << <<"scenario", i>> >>,
                             << Detail("If an xbrli:scenario element appears in a xbrli:context, then its children MUST only be explicitMember and/or typedMember elements.") >>,
                             "ERROR") >>
        ELSE <<>>]))

(***************************************************************************)
(* Fact related rules.                                                     *)
(***************************************************************************)
\* instance.facts.concept_aspect_values(): the distinct concepts of the facts,
\* each once, in the order of their first fact
RECURSIVE ConceptAspectValues(_, _)
ConceptAspectValues(facts, seen) ==
    IF facts = <<>> THEN <<>>
    ELSE IF Head(facts).concept \in seen THEN ConceptAspectValues(Tail(facts), seen)
    ELSE <<Head(facts).concept>>
         \o ConceptAspectValues(Tail(facts), seen \cup {Head(facts).concept})

\* the inner loop of eba_2_16 over instance.facts.filter(aspect.concept)
RECURSIVE eba_2_16_loop(_, _, _)
eba_2_16_loop(inst, todo, duplicate_facts) ==
    IF todo = <<>> THEN <<>>
    ELSE
    LET fact == Head(todo)
        key == <<inst.facts[fact].context, inst.facts[fact].xml_lang>>
        map1 == SetDefault(duplicate_facts, key, fact)
        duplicate_fact == map1[key]
    IN  (IF duplicate_fact # fact
         THEN IF inst.facts[fact].unit = inst.facts[duplicate_fact].unit
              THEN << Error_create("[EBA.2.16] Duplicate (Redundant/Inconsistent) facts {fact} and {fact2}.",
                                   NoLocation, << <<"fact", fact>>, <<"fact", duplicate_fact>> >>,
                                   << Detail("Instances MUST NOT contain duplicate business facts.") >>,
                                   "ERROR") >>
              ELSE << Error_create("[EBA.2.16.1] No multi-unit facts {fact} and {fact2}.",
                                   NoLocation, << <<"fact", fact>>, <<"fact", duplicate_fact>> >>,
                                   << Detail("Instances MUST NOT contain business facts which would be duplicates were their units not different.") >>,
                                   "ERROR") >>
         ELSE <<>>)
        \o eba_2_16_loop(inst, Tail(todo), map1)

eba_2_16(inst) ==
    LET aspects == ConceptAspectValues(inst.facts, {})
    IN  Ok(Concat([a \in 1..Len(aspects) |->
            IF Concept(aspects[a]).is_item /\ aspects[a] # FilingIndicator
            THEN eba_2_16_loop(inst, FilterByConcept(inst, aspects[a]), EmptyDict)
            ELSE <<>>]))

eba_2_17(inst) ==
    Ok(Concat([f \in 1..Len(inst.facts) |->
        IF inst.facts[f].precision
        THEN << Error_create("[EBA.2.17] The use of the {precision} attribute is not permitted.",
                             NoLocation, << <<"fact/@precision", f>> >>,
                             << Detail("@decimals MUST be used as the only means for expressing precision on a fact.") >>,
                             "ERROR") >>
        ELSE <<>>]))

eba_2_19(inst) ==
    Ok(Concat([f \in 1..Len(inst.facts) |->
        IF inst.facts[f].xsi_nil
        THEN << Error_create("[EBA.2.19] Guidance on use of zeros and non-reported data.",
                             <<"fact", f>>, <<>>,
                             << Error_create("The {xsi_nil} attribute MUST NOT be used in the instance.",
                                             NoLocation, << <<"fact/@xsi:nil", f>> >>, <<>>, "INFO") >>,
                             "ERROR") >>
        ELSE <<>>]))

(***************************************************************************)
(* Unit related rules.                                                     *)
(***************************************************************************)
RECURSIVE eba_2_21_loop(_, _, _)
eba_2_21_loop(inst, i, aspects_map) ==
    IF i > Len(inst.units) THEN <<>>
    ELSE
    LET key == ConstraintSetOfUnit(inst.units[i])
        map1 == SetDefault(aspects_map, key, <<>>)
        duplicates == map1[key]
    IN  IF duplicates # <<>>
        THEN << Error_create("[EBA.2.21] Duplicates of xbrli:xbrl/xbrli:unit.",
                             <<"unit", i>>, <<>>,
                             << Detail("An XBRL instance SHOULD NOT, in general, contain duplicated units."),
                                Error_create("Unit {unit} is a duplicate of unit {unit2}",
                                             NoLocation, << <<"unit", i>>, <<"unit", duplicates[1]>> >>,
                                             <<>>, "OTHER") >>,
                             "WARNING") >>
             \o eba_2_21_loop(inst, i + 1, map1)
        ELSE eba_2_21_loop(inst, i + 1, [map1 EXCEPT ![key] = Append(duplicates, i)])

eba_2_21(inst) == Ok(eba_2_21_loop(inst, 1, EmptyDict))

eba_2_22(inst) ==
    Ok(Concat([i \in 1..Len(inst.units) |->
        IF FilterByUnit(inst, i) = <<>>
        THEN << Error_create("[EBA.2.22] Unused xbrli:xbrl/xbrli:unit.",
                             <<"unit", i>>, <<>>,
                             << Detail("An XBRL instance SHOULD NOT contain unused xbrli:unit nodes.") >>,
                             "WARNING") >>
        ELSE <<>>]))

\* instance.facts.filter(constraints) with constraints[CCA] = x1: the facts
\* reported in their currency of denomination
DenominationFacts(inst) ==
    SelectSeq([i \in 1..Len(inst.facts) |-> i],
              LAMBDA f : inst.contexts[inst.facts[f].context].dims.CCA = "x1")

\* a difference that removes nothing
FactSetNoDifference(a, b) == a

\* FactSet difference: the facts of a that are not in b, in document order
FactSetDifference(a, b) == SelectSeq(a, LAMBDA f : f \notin Range(b))

\* instance.child_items: every fact is a child of xbrli:xbrl (no tuples)
ChildItems(inst) == [i \in 1..Len(inst.facts) |-> i]

\* the single-currency loop of eba_3_1; single_unit = 0 is Python's None
RECURSIVE eba_3_1_loop(_, _, _)
eba_3_1_loop(inst, todo, single_unit) ==
    IF todo = <<>> THEN <<>>
    ELSE
    LET fact == Head(todo)
    IN  IF Concept(inst.facts[fact].concept).monetary
        THEN IF single_unit = 0
             THEN eba_3_1_loop(inst, Tail(todo), inst.facts[fact].unit)
             ELSE (IF inst.facts[fact].unit # single_unit
                   THEN << Error_create("[EBA.3.1] Choice of Currency for Monetary fact {fact}.",
                                        NoLocation, << <<"fact", fact>> >>,
                                        << Detail("An instance MUST express all monetary facts which do not fall under point (b) using a single currency.") >>,
                                        "ERROR") >>
                   ELSE <<>>)
                  \o eba_3_1_loop(inst, Tail(todo), single_unit)
        ELSE eba_3_1_loop(inst, Tail(todo), single_unit)

\* a guard that also skips the check when the instance has two monetary units
SingleCurrencyGuardWide(monetary_units) == Len(monetary_units) > 2

\* the guard of the single-currency check
SingleCurrencyGuard(monetary_units) == Len(monetary_units) > 1

eba_3_1(inst) ==
    LET denomination_facts == DenominationFacts(inst)
        consistency ==
            Concat([k \in 1..Len(denomination_facts) |->
                LET fact == denomination_facts[k]
                    currency == inst.contexts[inst.facts[fact].context].dims.CUS
                IN  IF Concept(inst.facts[fact].concept).monetary
                       /\ currency # ""
                       /\ currency # iso4217_currency(inst.units[inst.facts[fact].unit])
                    THEN << Error_create("[EBA.3.1] Choice of Currency for Monetary fact {fact}.",
                                         NoLocation, << <<"fact", fact>> >>,
                                         << Detail("For facts falling under point (b), whose context also includes the dimension CUS, the currency of the fact MUST be consistent with the value given for this dimension.") >>,
                                         "ERROR") >>
                    ELSE <<>>])
        monetary_units ==
            SelectSeq([i \in 1..Len(inst.units) |-> i],
                      LAMBDA u : is_monetary_unit(inst.units[u]))
    IN  Ok(consistency
           \o (IF SingleCurrencyGuard(monetary_units)
               THEN eba_3_1_loop(inst, FactSetDifference(ChildItems(inst), denomination_facts), 0)
               ELSE <<>>))

eba_3_2(inst) ==
    Ok(Concat([f \in 1..Len(inst.facts) |->
        IF Concept(inst.facts[f].concept).numeric /\ ~Concept(inst.facts[f].concept).monetary
           /\ ~is_pure(inst.units[inst.facts[f].unit])
        THEN << Error_create("[EBA.3.2] Non-monetary numeric units.",
                             <<"fact", f>>, <<>>,
                             << Detail("An instance MUST express its non-monetary numeric values using the pure unit.") >>,
                             "ERROR") >>
        ELSE <<>>]))

(***************************************************************************)
(* Additional guidance.                                                    *)
(***************************************************************************)
\* only the prefix of the element name
PrefixesOfElementName(element) == {element.prefix}

\* the prefixes one element adds to used_prefixes ("" is Python's None)
PrefixesOfElement(element) ==
    {element.prefix}
    \cup (IF element.value_is_qname THEN {element.value_prefix} ELSE {})
    \cup {element.attributes[a].prefix : a \in 1..Len(element.attributes)}
    \cup {element.attributes[a].value_prefix :
            a \in {b \in 1..Len(element.attributes) : element.attributes[b].value_is_qname}}

eba_3_4(inst) ==
    LET order == dfs(inst.elements, DocumentElement)
        used_prefixes == UNION {PrefixesOfElement(inst.elements[order[k]]) : k \in 1..Len(order)}
        nsattrs == inst.elements[DocumentElement].namespace_attributes
    IN  Ok(Concat([n \in 1..Len(nsattrs) |->
            IF nsattrs[n].local_name # "xmlns" /\ nsattrs[n].local_name \notin used_prefixes
            THEN << Error_create("[EBA.3.4] Unused namespace prefix {prefix}.",
                                 NoLocation, << <<"nsattr", n>> >>,
                                 << Detail("Namespace prefixes that are not used SHOULD not be declared in the instance document.") >>,
                                 "WARNING") >>
            ELSE <<>>]))

\* namespace_bindings of eba_3_5: for each taxonomy schema the first prefixed
\* declaration of its own target namespace; later schemas overwrite earlier ones
RECURSIVE NamespaceBindings(_, _)
NamespaceBindings(schemas, bindings) ==
    IF schemas = <<>> THEN bindings
    ELSE
    LET schema == Head(schemas)
        hits == SelectSeq(schema.namespace_attributes,
                          LAMBDA ns : ns.local_name # "xmlns"
                                      /\ ns.normalized_value = schema.target_namespace)
    IN  NamespaceBindings(Tail(schemas),
            IF hits = <<>> THEN bindings
            ELSE IF schema.target_namespace \in DOMAIN bindings
                 THEN [bindings EXCEPT ![schema.target_namespace] = hits[1].local_name]
                 ELSE bindings @@ (schema.target_namespace :> hits[1].local_name))

eba_3_5(inst) ==
    LET namespace_bindings == NamespaceBindings(inst.dts.taxonomy_schemas, EmptyDict)
        nsattrs == inst.elements[DocumentElement].namespace_attributes
    IN  Ok(Concat([n \in 1..Len(nsattrs) |->
            IF nsattrs[n].local_name # "xmlns"
               /\ nsattrs[n].normalized_value \in DOMAIN namespace_bindings
               /\ nsattrs[n].local_name # namespace_bindings[nsattrs[n].normalized_value]
            THEN << Error_create("[EBA.3.5] Re-use of canonical namespace prefix {prefix}.",
                                 NoLocation, << <<"nsattr", n>> >>,
                                 << Detail("Namespace prefixes, where used in instance documents, SHOULD mirror the namespace prefixes as defined by their schema author(s).") >>,
                                 "WARNING") >>
            ELSE <<>>]))

eba_3_6(inst) ==
    Ok(Concat([i \in 1..Len(inst.contexts) |->
        IF inst.contexts[i].scheme = "http://standard.iso.org/iso/17442"
        THEN << Error_create("[EBA.3.6] LEI and other entity codes.",
                             <<"identifier", i>>, <<>>,
                             << Detail("Producers of instance documents are encouraged to switch as quickly as possible to producing the correct form.") >>,
                             "WARNING") >>
        ELSE <<>>]))

\* href.split('#')[-1]: the text after the last '#', the whole text without one
RECURSIVE SplitLast(_)
SplitLast(href) ==
    IF \E k \in 1..Len(href) : href[k] = "#"
    THEN SplitLast(SubSeq(href, (CHOOSE k \in 1..Len(href) : href[k] = "#" /\ \A j \in 1..(k - 1) : href[j] # "#") + 1, Len(href)))
    ELSE href

\* used_ids of eba_3_7: the fragments of all locators that hold no '('
UsedIds(inst) ==
    UNION {{fragment \in {SplitLast(inst.footnote_links[l].locators[k]) :
                             k \in 1..Len(inst.footnote_links[l].locators)} :
              \A c \in 1..Len(fragment) : fragment[c] # "("} :
           l \in 1..Len(inst.footnote_links)}

eba_3_7(inst) ==
    LET used_ids == UsedIds(inst)
    IN  Ok(Concat([f \in 1..Len(inst.facts) |->
            IF inst.facts[f].id # <<>> /\ inst.facts[f].id \notin used_ids
            THEN << Error_create("[EBA.3.7] Unused {id} attribute on fact.",
                                 NoLocation, << <<"fact/@id", f>> >>,
                                 << Detail("The instance SHOULD NOT include unused @id attributes on facts.") >>,
                                 "WARNING") >>
            ELSE <<>>]))

eba_3_8(inst, params) ==
    LET max_string_length == IntParam(params, "max-string-length", DefaultMaxStringLength)
    IN  IF ~max_string_length.ok THEN Raise(<<>>, "ValueError")
        ELSE Ok(Concat([f \in 1..Len(inst.facts) |->
            IF Concept(inst.facts[f].concept).string
               /\ inst.facts[f].value_length > max_string_length.value
            THEN << Error_create("[EBA.3.8] Length of strings in instance.",
                                 <<"fact", f>>, <<>>,
                                 << Detail("The values of each string SHOULD be as short as possible.") >>,
                                 "WARNING") >>
            ELSE <<>>]))

eba_3_9(inst) ==
    LET elements == Tail(dfs(inst.elements, DocumentElement))
    IN  Ok(Concat([k \in 1..Len(elements) |->
            [n \in 1..Len(inst.elements[elements[k]].namespace_attributes) |->
                Error_create("[EBA.3.9] Namespace prefix declaration {prefix} restricted to the document element.",
                             NoLocation, << <<"element", elements[k]>>, <<"nsattr", n>> >>,
                             << Detail("Namespace prefixes declarations SHOULD be restricted to the document element.") >>,
                             "WARNING")]]))

RECURSIVE eba_3_10_loop(_, _, _)
eba_3_10_loop(nsattrs, n, used_namespaces) ==
    IF n > Len(nsattrs) THEN <<>>
    ELSE
    LET ns == nsattrs[n].normalized_value
        map1 == SetDefault(used_namespaces, ns, n)
    IN  (IF map1[ns] # n
         THEN << Error_create("[EBA.3.10] Avoid multiple prefix declarations {prefix} and {prefix2} for the same namespace {namespace}.",
                              NoLocation, << <<"nsattr", n>>, <<"nsattr", map1[ns]>> >>,
                              << Detail("Namespaces used in the document SHOULD be associated to a single namespace prefix.") >>,
                              "WARNING") >>
         ELSE <<>>)
        \o eba_3_10_loop(nsattrs, n + 1, map1)

eba_3_10(inst) ==
    Ok(eba_3_10_loop(inst.elements[DocumentElement].namespace_attributes, 1, EmptyDict))

(***************************************************************************)
(* The dispatcher.                                                         *)
(***************************************************************************)
\* a log that drops a finding equal to one it already holds
report_once(log, error) == IF error \in Range(log) THEN log ELSE Append(log, error)

\* a log that puts each new finding in front of the older ones
report_front(log, error) == <<error>> \o log

\* error_log.report(error)
report(log, error) == Append(log, error)

RECURSIVE ReportAll(_, _)
ReportAll(log, errors) ==
    IF errors = <<>> THEN log ELSE ReportAll(report(log, Head(errors)), Tail(errors))

\* the predicates in the order check_eba_filing_rules calls them
Rules ==
    << "eba_1_4", "eba_1_6", "eba_1_13", "eba_1_14", "eba_1_15",
       "eba_2_1", "eba_2_2", "eba_2_3", "eba_2_4", "eba_2_25",
       "eba_2_6", "eba_2_7", "eba_2_9", "eba_2_10", "eba_2_11", "eba_2_13",
       "eba_2_14", "eba_2_15",
       "eba_2_16", "eba_2_17", "eba_2_19",
       "eba_2_21", "eba_2_22", "eba_3_1", "eba_3_2",
       "eba_3_4", "eba_3_5", "eba_3_6", "eba_3_7", "eba_3_8", "eba_3_9", "eba_3_10" >>

\* one call of the dispatcher: the outcome of the named predicate
Call(rule, inst, params, opts) ==
    CASE rule = "eba_1_4" -> eba_1_4(inst)
      [] rule = "eba_1_6" -> eba_1_6(inst)
      [] rule = "eba_1_13" -> eba_1_13(inst)
      [] rule = "eba_1_14" -> eba_1_14(inst)
      [] rule = "eba_1_15" -> eba_1_15(inst, opts)
      [] rule = "eba_2_1" -> eba_2_1(inst)
      [] rule = "eba_2_2" -> eba_2_2(inst)
      [] rule = "eba_2_3" -> eba_2_3(inst)
      [] rule = "eba_2_4" -> eba_2_4(inst)
      [] rule = "eba_2_25" -> eba_2_25(inst)
      [] rule = "eba_2_6" -> eba_2_6(inst, params)
      [] rule = "eba_2_7" -> eba_2_7(inst)
      [] rule = "eba_2_9" -> eba_2_9(inst)
      [] rule = "eba_2_10" -> eba_2_10(inst)
      [] rule = "eba_2_11" -> eba_2_11(inst)
      [] rule = "eba_2_13" -> eba_2_13(inst)
      [] rule = "eba_2_14" -> eba_2_14(inst)
      [] rule = "eba_2_15" -> eba_2_15(inst)
      [] rule = "eba_2_16" -> eba_2_16(inst)
      [] rule = "eba_2_17" -> eba_2_17(inst)
      [] rule = "eba_2_19" -> eba_2_19(inst)
      [] rule = "eba_2_21" -> eba_2_21(inst)
      [] rule = "eba_2_22" -> eba_2_22(inst)
      [] rule = "eba_3_1" -> eba_3_1(inst)
      [] rule = "eba_3_2" -> eba_3_2(inst)
      [] rule = "eba_3_4" -> eba_3_4(inst)
      [] rule = "eba_3_5" -> eba_3_5(inst)
      [] rule = "eba_3_6" -> eba_3_6(inst)
      [] rule = "eba_3_7" -> eba_3_7(inst)
      [] rule = "eba_3_8" -> eba_3_8(inst, params)
      [] rule = "eba_3_9" -> eba_3_9(inst)
      [] rule = "eba_3_10" -> eba_3_10(inst)

\* the calls from position k on; an exception leaves the dispatcher at once, the
\* findings reported before it stay in the log.  at is the predicate that raised.
RECURSIVE RunFrom(_, _, _, _, _)
RunFrom(k, inst, params, opts, log) ==
    IF k > Len(Rules) THEN [log |-> log, exc |-> "", at |-> ""]
    ELSE
    LET r == Call(Rules[k], inst, params, opts)
        log1 == ReportAll(log, r.out)
    IN  IF r.exc # "" THEN [log |-> log1, exc |-> r.exc, at |-> Rules[k]]
        ELSE RunFrom(k + 1, inst, params, opts, log1)

check_eba_filing_rules(inst, params, opts, log) == RunFrom(1, inst, params, opts, log)

\* the EBA 1.9 branch without the clear()
WrapInvalidNoClear(log) ==
    LET xbrl_errors == << Detail("Instance documents MUST be XBRL 2.1 and XBRL Dimensions 1.0 valid.") >> \o log
        main_error == Error_create("[EBA.1.9] Valid XML-XBRL.", NoLocation, <<>>, xbrl_errors, "ERROR")
    IN  Append(log, main_error)

\* the EBA 1.9 branch of on_xbrl_finished: the log after clear() and report()
WrapInvalid(log) ==
    LET xbrl_errors == << Detail("Instance documents MUST be XBRL 2.1 and XBRL Dimensions 1.0 valid.") >> \o log
        main_error == Error_create("[EBA.1.9] Valid XML-XBRL.", NoLocation, <<>>, xbrl_errors, "ERROR")
    IN  report(<<>>, main_error)

(***************************************************************************)
(* Initial states: the job as the host hands it over.  Each family varies  *)
(* one part of the instance and keeps the rest at BaseInstance.            *)
(***************************************************************************)
BaseContext ==
    [id_length |-> 2, scheme |-> "http://standards.iso.org/iso/17442", identifier |-> "LEI1",
     period |-> [kind |-> "instant", date |-> 1, tz |-> FALSE, type |-> "date"],
     segment |-> FALSE, scenario |-> FALSE, non_xdt |-> FALSE,
     dims |-> [CCA |-> "", CUS |-> ""]]

BaseFact ==
    [concept |-> "eba_met:si1", context |-> 1, unit |-> 0, xml_lang |-> "",
     id |-> <<>>, precision |-> FALSE, xsi_nil |-> FALSE, value_length |-> 3,
     normalized_value |-> "abc"]

BaseElement ==
    [children |-> <<>>, prefix |-> "xbrli", value_is_qname |-> FALSE, value_prefix |-> "",
     attributes |-> <<>>,
     namespace_attributes |-> << [local_name |-> "xbrli", normalized_value |-> "http://www.xbrl.org/2003/instance"] >>]

BaseInstance ==
    [none |-> FALSE,
     encoding |-> "UTF-8", standalone |-> "",
     elements |-> << BaseElement >>,
     schema_refs |-> << [scheme |-> "http://", path |-> "www.eba.europa.eu/mod/corep.xsd"] >>,
     linkbase_refs |-> <<>>,
     footnote_links |-> <<>>,
     contexts |-> << BaseContext >>,
     units |-> << [measure |-> "iso4217:EUR"] >>,
     facts |-> << BaseFact >>,
     dts |-> [available_indicators |-> {"C_01.00"}, taxonomy_schemas |-> <<>>]]

\* instance is None: only the field none is ever read
NoneInstance == [BaseInstance EXCEPT !.none = TRUE]

BaseOptions == [o \in {"xinclude"} |-> FALSE]

BaseJob ==
    /\ script_params = EmptyDict
    /\ options = BaseOptions
    /\ error_log = <<>>
    /\ raised = [exc |-> "", at |-> ""]
    /\ marks = <<>>

\* the facts, one for each context (unit) position of the set used
RECURSIVE FactsUsing(_, _, _)
FactsUsing(n, used, field) ==
    IF n = 0 THEN <<>>
    ELSE FactsUsing(n - 1, used, field)
         \o (IF n \in used
             THEN << IF field = "context" THEN [BaseFact EXCEPT !.context = n]
                     ELSE [BaseFact EXCEPT !.concept = "eba_met:pi1", !.unit = n] >>
             ELSE <<>>)

ContextChoices ==
    { BaseContext,
      [BaseContext EXCEPT !.period.date = 2],
      [BaseContext EXCEPT !.period = [kind |-> "duration", date |-> 1, tz |-> FALSE, type |-> "date"]] }

\* contexts of any kind, some used by facts and some not
InitContexts ==
    /\ \E contexts \in SeqsUpTo(ContextChoices, MaxContexts) :
       \E used \in SUBSET (1..Len(contexts)) :
          instance = [BaseInstance EXCEPT !.contexts = contexts,
                                          !.facts = FactsUsing(Len(contexts), used, "context")]
    /\ BaseJob

UnitChoices == [measure : {"iso4217:USD", "iso4217:EUR", "xbrli:pure"}]

\* units of any kind, some used by facts and some not
InitUnits ==
    /\ \E units \in SeqsUpTo(UnitChoices, MaxUnits) :
       \E used \in SUBSET (1..Len(units)) :
          instance = [BaseInstance EXCEPT !.units = units,
                                          !.facts = FactsUsing(Len(units), used, "unit")]
    /\ BaseJob

\* contexts of the fact families: plain, denomination (CCA = x1) without and
\* with the CUS dimension, and CUS without CCA = x1
FactContexts ==
    << BaseContext,
       [BaseContext EXCEPT !.scenario = TRUE, !.dims = [CCA |-> "x1", CUS |-> ""]],
       [BaseContext EXCEPT !.scenario = TRUE, !.dims = [CCA |-> "x1", CUS |-> "EUR"]],
       [BaseContext EXCEPT !.scenario = TRUE, !.dims = [CCA |-> "", CUS |-> "EUR"]] >>

FactUnits == << [measure |-> "iso4217:USD"], [measure |-> "iso4217:EUR"] >>

MonetaryFact(c, u) == [BaseFact EXCEPT !.concept = "eba_met:mi1", !.context = c, !.unit = u]

FactChoices ==
    { MonetaryFact(1, 1), MonetaryFact(1, 2), MonetaryFact(2, 1),
      [BaseFact EXCEPT !.xml_lang = "en"], [BaseFact EXCEPT !.xml_lang = "de"],
      [BaseFact EXCEPT !.concept = FilingIndicator] }

\* facts of several concepts, contexts, units and languages
InitFacts ==
    /\ \E facts \in SeqsUpTo(FactChoices, MaxFacts) :
          instance = [BaseInstance EXCEPT !.contexts = FactContexts, !.units = FactUnits,
                                          !.facts = facts]
    /\ BaseJob

MonetaryFactChoices ==
    { MonetaryFact(c, u) : c \in {1, 2, 4}, u \in 1..Len(FactUnits) }

\* monetary facts in plain, denomination and currency-qualified contexts
InitCurrency ==
    /\ \E facts \in SeqsUpTo(MonetaryFactChoices, MaxMonetaryFacts) :
          instance = [BaseInstance EXCEPT !.contexts = FactContexts, !.units = FactUnits,
                                          !.facts = facts]
    /\ BaseJob

ParamTexts == { <<"1", "0">>, <<" ", "7">>, <<"a", "b", "c">> }

ParamChoices ==
    {EmptyDict} \cup [{"max-id-length"} -> ParamTexts] \cup [{"max-string-length"} -> ParamTexts]

SchemaRefChoices ==
    LET http == [scheme |-> "http://", path |-> "www.eba.europa.eu/mod/corep.xsd"]
        https == [scheme |-> "https://", path |-> "www.eba.europa.eu/mod/corep.xsd"]
        rel == [scheme |-> "", path |-> "corep.xsd"]
    IN  { <<>>, <<http>>, <<https>>, <<rel>>, <<http, rel>>, <<rel, http>> }

HostWarning == Error_create("xbrl.utr: unit not in registry", <<"host", 1>>, <<>>, <<>>, "WARNING")

\* contexts and facts of the job family: none, or one or two contexts of short
\* or long id with a string fact of short or long content
JobContexts(n, long) ==
    [i \in 1..n |->
        [BaseContext EXCEPT !.id_length = IF long THEN 51 ELSE 8,
                            !.identifier = IF i = 1 THEN "LEI1" ELSE "LEI2"]]

JobFacts(n, long) ==
    [i \in 1..(IF n = 0 THEN 0 ELSE 1) |->
        [BaseFact EXCEPT !.value_length = IF long THEN 101 ELSE 8]]

JobInstances ==
    { [BaseInstance EXCEPT !.schema_refs = refs,
                           !.contexts = JobContexts(n, long),
                           !.facts = JobFacts(n, long)] :
        refs \in SchemaRefChoices, n \in 0..2, long \in BOOLEAN }

\* script parameters, options, schemaRefs and the instance without contexts
InitJob ==
    /\ instance \in JobInstances
    /\ \/ script_params \in ParamChoices /\ error_log = <<>>
       \/ script_params = EmptyDict /\ error_log = <<HostWarning>>
    /\ options \in [{"xinclude"} -> BOOLEAN]
    /\ raised = [exc |-> "", at |-> ""]
    /\ marks = <<>>

HostErrors ==
    { Error_create("xbrl21: schema validation error", <<"host", 1>>, <<>>, <<>>, "ERROR"),
      Error_create("xbrldi: dimensionally invalid fact", <<"host", 2>>, <<>>, <<>>, "ERROR") }

\* base validation failed: the host passes None and has logged its findings
InitInvalid ==
    /\ instance = NoneInstance
    /\ script_params = EmptyDict
    /\ options = BaseOptions
    /\ error_log \in SeqsUpTo(HostErrors, MaxHostErrors)
    /\ raised = [exc |-> "", at |-> ""]
    /\ marks = <<>>

\* lengths of context ids around the limits 10 and 50
IdLengthChoices == {9, 10, 11, 50, 51}

\* contexts whose ids are just below, at and just above the limit, each used
\* by one fact, with the limit configured as 10 or left at its default
InitIdLength ==
    /\ \E lengths \in SeqsUpTo(IdLengthChoices, MaxIdContexts) :
          instance = [BaseInstance EXCEPT
                         !.contexts = [i \in 1..Len(lengths) |->
                                          [BaseContext EXCEPT !.id_length = lengths[i], !.period.date = i]],
                         !.facts = FactsUsing(Len(lengths), 1..Len(lengths), "context")]
    /\ script_params \in {EmptyDict, [p \in {"max-id-length"} |-> <<"1", "0">>]}
    /\ options = BaseOptions
    /\ error_log = <<>>
    /\ raised = [exc |-> "", at |-> ""]
    /\ marks = <<>>

Attribute(ns, local_name) ==
    [ns |-> ns, local_name |-> local_name, prefix |-> ns, value_is_qname |-> FALSE, value_prefix |-> ""]

\* the attributes the syntax rules look for, in any combination and order
SyntaxAttributeChoices ==
    LET schemaLocation == Attribute("xsi", "schemaLocation")
        noNamespaceSchemaLocation == Attribute("xsi", "noNamespaceSchemaLocation")
        base == Attribute("xml", "base")
    IN  { <<>>, <<schemaLocation>>, <<noNamespaceSchemaLocation>>, <<base>>,
          <<schemaLocation, noNamespaceSchemaLocation>>, <<noNamespaceSchemaLocation, schemaLocation>>,
          <<base, schemaLocation>>, <<schemaLocation, noNamespaceSchemaLocation, base>> }

\* a child of the document element without namespace declarations
ChildElement(attributes) ==
    [BaseElement EXCEPT !.attributes = attributes, !.namespace_attributes = <<>>]

HttpSchemaRef == [scheme |-> "http://", path |-> "www.eba.europa.eu/mod/corep.xsd"]

\* a footnote link with the given number of footnote resources and no locator
FootnoteLink(resources) == [resources |-> resources, locators |-> <<>>]

\* documents with the constructs of the syntax rules: schema-location and
\* xml:base attributes, schemaRefs, linkbaseRefs, footnote links
SyntaxInstances ==
    { [BaseInstance EXCEPT
          !.elements = << [BaseElement EXCEPT !.children = <<2>>, !.attributes = attributes],
                          ChildElement(IF child_base THEN << Attribute("xml", "base") >> ELSE <<>>) >>] :
        attributes \in SyntaxAttributeChoices, child_base \in BOOLEAN }
    \cup { [BaseInstance EXCEPT !.schema_refs = [r \in 1..(n + 1) |-> HttpSchemaRef],
                                !.linkbase_refs = [r \in 1..m |-> "linkbase.xml"]] :
             n \in 0..MaxRefs, m \in 0..MaxRefs }
    \cup { [BaseInstance EXCEPT !.footnote_links = [l \in 1..Len(links) |-> FootnoteLink(links[l])]] :
             links \in SeqsUpTo(0..MaxFootnotes, MaxFootnoteLinks) }

InitSyntax ==
    /\ instance \in SyntaxInstances
    /\ BaseJob

\* the element trees of n nodes: node 1 is the document element and every
\* other node is a child of a node before it
Trees(n) ==
    { [e \in 1..n |-> SelectSeq([c \in 1..n |-> c], LAMBDA c : c > 1 /\ parent[c] = e)] :
        parent \in {p \in [2..n -> 1..n] : \A c \in 2..n : p[c] < c} }

\* documents of every tree shape in which each element carries xml:base and
\* each element below the document element a namespace declaration, so that
\* eba_2_1 and eba_3_9 report every element they are handed
TreeInstances ==
    { [BaseInstance EXCEPT
          !.elements = [e \in 1..Len(tree) |->
                           [BaseElement EXCEPT
                               !.children = tree[e],
                               !.attributes = << Attribute("xml", "base") >>,
                               !.namespace_attributes =
                                   IF e = DocumentElement THEN BaseElement.namespace_attributes
                                   ELSE << [local_name |-> "eba_met", normalized_value |-> "urn:eba:met"] >>]]] :
        tree \in UNION {Trees(n) : n \in 1..MaxElements} }

InitTree ==
    /\ instance \in TreeInstances
    /\ BaseJob

IndicatorFact(value, context) ==
    [BaseFact EXCEPT !.concept = FilingIndicator, !.normalized_value = value, !.context = context]

IndicatorChoices ==
    { IndicatorFact("C_01.00", 1), IndicatorFact("C_02.00", 1), IndicatorFact("C_01.00", 2), BaseFact }

\* filing indicators with equal and different values, among other facts
InitIndicators ==
    /\ \E facts \in SeqsUpTo(IndicatorChoices, MaxIndicators) :
          instance = [BaseInstance EXCEPT !.contexts = FactContexts, !.facts = facts]
    /\ BaseJob

\* locator hrefs as character sequences: "#a", "d#b", "#e(a)" (an XPointer
\* form) and "a" (a reference without fragment)
LocatorChoices ==
    { <<"#", "a">>, <<"d", "#", "b">>, <<"#", "e", "(", "a", ")">>, <<"a">> }

\* a fact without id and facts with the ids "a" and "b"
FootnoteFacts ==
    << BaseFact, [BaseFact EXCEPT !.id = <<"a">>, !.xml_lang = "en"],
       [BaseFact EXCEPT !.id = <<"b">>, !.xml_lang = "de"] >>

\* footnote links whose locators point at the facts, all in one link or one
\* link for each locator
InitFootnotes ==
    /\ \E hrefs \in SeqsUpTo(LocatorChoices, MaxLocators) :
       \E single \in BOOLEAN :
          instance = [BaseInstance EXCEPT
                         !.facts = FootnoteFacts,
                         !.footnote_links =
                             IF single THEN << [resources |-> 1, locators |-> hrefs] >>
                             ELSE [k \in 1..Len(hrefs) |-> [resources |-> 1, locators |-> <<hrefs[k]>>]]]
    /\ BaseJob

\* the ways an element below the document element can use a prefix: not at
\* all, in its name, in its QName value, in the name of an attribute, in the
\* QName value of an attribute
PrefixUses(prefix) ==
    { ChildElement(<<>>),
      [ChildElement(<<>>) EXCEPT !.prefix = prefix],
      [ChildElement(<<>>) EXCEPT !.value_is_qname = TRUE, !.value_prefix = prefix],
      ChildElement(<< [ns |-> "urn:ns", local_name |-> "a", prefix |-> prefix,
                       value_is_qname |-> FALSE, value_prefix |-> ""] >>),
      ChildElement(<< [ns |-> "", local_name |-> "a", prefix |-> "",
                       value_is_qname |-> TRUE, value_prefix |-> prefix] >>) }

\* declarations on the document element: the default namespace or none, and
\* the prefixes xbrli, eba_met and find
NamespaceDeclarations(default) ==
    (IF default THEN << [local_name |-> "xmlns", normalized_value |-> "urn:default"] >> ELSE <<>>)
    \o << [local_name |-> "xbrli", normalized_value |-> "http://www.xbrl.org/2003/instance"],
          [local_name |-> "eba_met", normalized_value |-> "urn:eba:met"],
          [local_name |-> "find", normalized_value |-> "urn:eba:find"] >>

\* a document element with a child and a grandchild that use prefixes
InitNamespaces ==
    /\ \E default \in BOOLEAN :
       \E child \in PrefixUses("eba_met") \cup PrefixUses("find") :
       \E grandchild \in PrefixUses("eba_met") \cup PrefixUses("find") :
          instance = [BaseInstance EXCEPT
                         !.elements = << [BaseElement EXCEPT
                                             !.children = <<2>>,
                                             !.namespace_attributes = NamespaceDeclarations(default)],
                                         [child EXCEPT !.children = <<3>>],
                                         grandchild >>]
    /\ BaseJob

\* the options of the job: XInclude and the units registry switched on or
\* off, or the registry option not given at all (InitJob)
InitOptions ==
    /\ instance \in {BaseInstance, NoneInstance}
    /\ script_params = EmptyDict
    /\ options \in [{"xinclude", "utr"} -> BOOLEAN]
    /\ error_log \in {<<>>, <<HostWarning>>}
    /\ raised = [exc |-> "", at |-> ""]
    /\ marks = <<>>

\* the units of an instance: one currency, one currency and the pure unit,
\* two currencies, one currency declared twice
GuardUnits ==
    { << [measure |-> "iso4217:USD"] >>,
      << [measure |-> "iso4217:USD"], [measure |-> "xbrli:pure"] >>,
      << [measure |-> "iso4217:USD"], [measure |-> "iso4217:EUR"] >>,
      << [measure |-> "iso4217:USD"], [measure |-> "iso4217:USD"] >> }

\* the facts an XBRL-valid instance can hold over the given units: monetary
\* facts with a currency unit, in a plain or a denomination context, and
\* other numeric facts with the pure unit
GuardFactChoices(units) ==
    { MonetaryFact(c, u) : c \in {1, 2}, u \in {v \in 1..Len(units) : is_monetary_unit(units[v])} }
    \cup { [BaseFact EXCEPT !.concept = "eba_met:pi1", !.unit = u] :
             u \in {v \in 1..Len(units) : is_pure(units[v])} }

\* instances with one or with several monetary units
InitGuard ==
    /\ \E units \in GuardUnits :
       \E facts \in SeqsUpTo(GuardFactChoices(units), MaxMonetaryFacts) :
          instance = [BaseInstance EXCEPT !.contexts = FactContexts, !.units = units, !.facts = facts]
    /\ BaseJob

Init == InitContexts \/ InitUnits \/ InitFacts \/ InitCurrency \/ InitJob \/ InitInvalid \/ InitIdLength \/ InitSyntax \/ InitTree \/ InitIndicators \/ InitFootnotes \/ InitNamespaces \/ InitOptions \/ InitGuard

(***************************************************************************)
(* The callbacks.                                                          *)
(***************************************************************************)
\* a hook that replaces the options by a dict holding only 'utr'
on_xbrl_finished_dts_replace ==
    /\ options' = [o \in {"utr"} |-> TRUE]
    /\ UNCHANGED <<instance, script_params, error_log, raised, marks>>

on_xbrl_finished_dts ==
    /\ options' = (IF "utr" \in DOMAIN options THEN [options EXCEPT !["utr"] = TRUE]
                   ELSE options @@ ("utr" :> TRUE))
    /\ UNCHANGED <<instance, script_params, error_log, raised, marks>>

on_xbrl_finished ==
    /\ Len(marks) < MaxCalls
    /\ marks' = Append(marks, Len(error_log))
    /\ IF ~instance.none
       THEN LET run == check_eba_filing_rules(instance, script_params, options, error_log)
            IN  /\ error_log' = run.log
                /\ raised' = [exc |-> run.exc, at |-> run.at]
       ELSE /\ error_log' = WrapInvalid(error_log)
            /\ raised' = [exc |-> "", at |-> ""]
    /\ UNCHANGED <<instance, script_params, options>>

Next == on_xbrl_finished_dts \/ on_xbrl_finished

Spec == Init /\ [][Next]_vars

(***************************************************************************)
(* Reading the log: the findings of the last on_xbrl_finished call.        *)
(***************************************************************************)
Called == marks # <<>>

LastRun == SubSeq(error_log, marks[Len(marks)] + 1, Len(error_log))

Index(rule) == CHOOSE k \in 1..Len(Rules) : Rules[k] = rule

\* the last call was given an instance and the named predicate returned
Completed(rule) ==
    /\ Called
    /\ ~instance.none
    /\ (raised.exc = "" \/ Index(raised.at) > Index(rule))

\* number of findings of the last run with the given message, first
\* substituted object and number of children
Count(text, object, nchildren) ==
    Cardinality({k \in 1..Len(LastRun) :
                    /\ LastRun[k].text = text
                    /\ LastRun[k].args # <<>>
                    /\ LastRun[k].args[1] = object
                    /\ Len(LastRun[k].children) = nchildren})

\* the same for findings that carry their object as location
CountAt(text, object) ==
    Cardinality({k \in 1..Len(LastRun) :
                    LastRun[k].text = text /\ LastRun[k].location = object})

Text_2_7 == "[EBA.2.7] No unused or duplicated {context} nodes."
Text_2_13 == "[EBA.2.13] XBRL {period} consistency."
Text_2_16 == "[EBA.2.16] Duplicate (Redundant/Inconsistent) facts {fact} and {fact2}."
Text_2_16_1 == "[EBA.2.16.1] No multi-unit facts {fact} and {fact2}."
Text_2_21 == "[EBA.2.21] Duplicates of xbrli:xbrl/xbrli:unit."
Text_2_22 == "[EBA.2.22] Unused xbrli:xbrl/xbrli:unit."
Text_3_1 == "[EBA.3.1] Choice of Currency for Monetary fact {fact}."

(***************************************************************************)
(* C1  eba_2_16: in every group of facts of one item concept (other than   *)
(* the filing indicator) sharing context and xml:lang, the first fact gets *)
(* no finding and each later fact exactly one: [EBA.2.16] when an earlier  *)
(* fact of the group has the same unit, [EBA.2.16.1] only when no earlier  *)
(* fact of the group has its unit.                                         *)
(***************************************************************************)
SameGroup(f, g) ==
    /\ instance.facts[f].concept = instance.facts[g].concept
    /\ instance.facts[f].context = instance.facts[g].context
    /\ instance.facts[f].xml_lang = instance.facts[g].xml_lang

EarlierInGroup(f) == {g \in 1..(f - 1) : SameGroup(f, g)}

C1_DuplicateFacts ==
    Completed("eba_2_16") =>
        \A f \in 1..Len(instance.facts) :
            instance.facts[f].concept # FilingIndicator =>
                LET same == \E g \in EarlierInGroup(f) :
                                instance.facts[g].unit = instance.facts[f].unit
                IN  /\ Count(Text_2_16, <<"fact", f>>, 1)
                        = (IF EarlierInGroup(f) # {} /\ same THEN 1 ELSE 0)
                    /\ Count(Text_2_16_1, <<"fact", f>>, 1)
                        = (IF EarlierInGroup(f) # {} /\ ~same THEN 1 ELSE 0)


(***************************************************************************)
(* C2  eba_2_7 and eba_2_21: a duplicate finding is reported exactly for   *)
(* each context (unit) whose constraint-set signature equals that of an    *)
(* earlier one, and it cites the first context (unit) in document order    *)
(* with that signature.                                                    *)
(***************************************************************************)
EarlierSameContext(i) ==
    {j \in 1..(i - 1) : ConstraintSetOfContext(instance.contexts[j])
                        = ConstraintSetOfContext(instance.contexts[i])}

EarlierSameUnit(i) ==
    {j \in 1..(i - 1) : ConstraintSetOfUnit(instance.units[j])
                        = ConstraintSetOfUnit(instance.units[i])}

Min(S) == CHOOSE m \in S : \A n \in S : m <= n

\* the duplicate findings of the last run for the object, by what they cite
Citing(text, kind, i, j) ==
    {k \in 1..Len(LastRun) :
        /\ LastRun[k].text = text
        /\ Len(LastRun[k].children) = 2
        /\ LastRun[k].children[2].args = << <<kind, i>>, <<kind, j>> >>}

DuplicatesOf(text, kind, i, n) == UNION {Citing(text, kind, i, j) : j \in 1..n}

C2_DuplicateEntities ==
    /\ Completed("eba_2_7") =>
          \A i \in 1..Len(instance.contexts) :
             IF EarlierSameContext(i) = {}
             THEN DuplicatesOf(Text_2_7, "context", i, Len(instance.contexts)) = {}
             ELSE /\ Cardinality(DuplicatesOf(Text_2_7, "context", i, Len(instance.contexts))) = 1
                  /\ Cardinality(Citing(Text_2_7, "context", i, Min(EarlierSameContext(i)))) = 1
    /\ Completed("eba_2_21") =>
          \A i \in 1..Len(instance.units) :
             IF EarlierSameUnit(i) = {}
             THEN DuplicatesOf(Text_2_21, "unit", i, Len(instance.units)) = {}
             ELSE /\ Cardinality(DuplicatesOf(Text_2_21, "unit", i, Len(instance.units))) = 1
                  /\ Cardinality(Citing(Text_2_21, "unit", i, Min(EarlierSameUnit(i)))) = 1

\* three structurally identical contexts: two duplicate findings, both citing the first
C2_Witness ==
    /\ Completed("eba_2_7")
    /\ Len(instance.contexts) = 3
    /\ EarlierSameContext(3) = {1, 2}
    /\ Cardinality(Citing(Text_2_7, "context", 2, 1)) = 1
    /\ Cardinality(Citing(Text_2_7, "context", 3, 1)) = 1

(***************************************************************************)
(* C3  on_xbrl_finished with instance = None: afterwards the log holds     *)
(* exactly one finding, [EBA.1.9], whose children are the citation detail  *)
(* followed by the findings the log held before the call, in their order;  *)
(* no predicate has run and no exception leaves the callback.              *)
(***************************************************************************)
Text_1_9 == "[EBA.1.9] Valid XML-XBRL."

C3_InvalidInstanceWrapped ==
    [][(instance.none /\ marks' # marks) =>
          /\ Len(error_log') = 1
          /\ error_log'[1].text = Text_1_9
          /\ Len(error_log'[1].children) = Len(error_log) + 1
          /\ Head(error_log'[1].children).severity = "INFO"
          /\ Head(error_log'[1].children).children = <<>>
          /\ Tail(error_log'[1].children) = error_log
          /\ \A k \in 1..Len(error_log) : error_log[k] # error_log'[1]
          /\ raised'.exc = ""]_vars

\* two host findings wrapped, in their order
C3_Witness ==
    /\ instance.none
    /\ Len(marks) = 1
    /\ Len(error_log) = 1
    /\ Len(error_log[1].children) = 3
    /\ error_log[1].children[2] # error_log[1].children[3]

(***************************************************************************)
(* C4  With zero contexts eba_2_9 and eba_2_13 report nothing and raise    *)
(* nothing, likewise eba_2_2 without a schemaRef, and the dispatcher goes  *)
(* on to the remaining predicates.                                         *)
(***************************************************************************)
C4_EmptyCollectionsVacuous ==
    (Called /\ ~instance.none) =>
        /\ instance.contexts = <<>> =>
              /\ eba_2_9(instance) = Ok(<<>>)
              /\ eba_2_13(instance) = Ok(<<>>)
              /\ raised.at \notin {"eba_2_9", "eba_2_13"}
        /\ instance.schema_refs = <<>> =>
              /\ eba_2_2(instance) = Ok(<<>>)
              /\ raised.at # "eba_2_2"

(***************************************************************************)
(* C5  When max-id-length (max-string-length) is absent or not numeric,    *)
(* eba_2_6 (eba_3_8) uses the default 50 (100) and returns normally; a     *)
(* numeric value is used as given.                                         *)
(***************************************************************************)
\* the limit the rule is to use: the parameter when numeric, else the default
LimitToUse(name, default) ==
    IF name \in DOMAIN script_params /\ PyInt(script_params[name]).ok
    THEN PyInt(script_params[name]).value
    ELSE default

C5_ParameterDefaults ==
    (Called /\ ~instance.none) =>
        /\ raised.at \notin {"eba_2_6", "eba_3_8"}
        /\ Completed("eba_2_6") =>
              \A i \in 1..Len(instance.contexts) :
                 (\E k \in 1..Len(LastRun) : LastRun[k].args = << <<"context/@id", i>> >>)
                 <=> instance.contexts[i].id_length > LimitToUse("max-id-length", DefaultMaxIdLength)
        /\ Completed("eba_3_8") =>
              \A f \in 1..Len(instance.facts) :
                 CountAt("[EBA.3.8] Length of strings in instance.", <<"fact", f>>) > 0
                 <=> (Concept(instance.facts[f].concept).string
                      /\ instance.facts[f].value_length
                           > LimitToUse("max-string-length", DefaultMaxStringLength))

(***************************************************************************)
(* C6  For an instance with at least one context and one schemaRef (and    *)
(* the script parameters left at their defaults) every predicate of        *)
(* check_eba_filing_rules returns without raising, whatever the href of    *)
(* the first schemaRef, so every later predicate is invoked.               *)
(***************************************************************************)
C6_NoPredicateRaises ==
    (/\ Called
     /\ ~instance.none
     /\ instance.contexts # <<>>
     /\ instance.schema_refs # <<>>
     /\ script_params = EmptyDict)
    => raised.exc = ""

(***************************************************************************)
(* C7  Running check_eba_filing_rules again over the same instance,        *)
(* parameters and options appends the same ordered findings as the run     *)
(* before it.                                                              *)
(***************************************************************************)
\* the part of the log the k-th on_xbrl_finished call appended
RunSegment(k) ==
    SubSeq(error_log, marks[k] + 1,
           IF k < Len(marks) THEN marks[k + 1] ELSE Len(error_log))

UsedByValueContext(i) ==
    \E f \in 1..Len(instance.facts) :
        ConstraintSetOfContext(instance.contexts[instance.facts[f].context])
        = ConstraintSetOfContext(instance.contexts[i])

UsedByValueUnit(i) ==
    \E f \in 1..Len(instance.facts) :
        /\ instance.facts[f].unit # 0
        /\ ConstraintSetOfUnit(instance.units[instance.facts[f].unit])
           = ConstraintSetOfUnit(instance.units[i])

C9_SinglePeriod ==
    Completed("eba_2_13") =>
        \A i \in 1..Len(instance.contexts) :
            Count(Text_2_13, <<"period", i>>, 1)
            = (IF instance.contexts[i].period.kind # "instant"
                  \/ period_aspect_value(instance.contexts[i])
                     # period_aspect_value(instance.contexts[1])
               THEN 1 ELSE 0)

\* two instants of different dates: a finding for the second context only
C9_Witness ==
    /\ Completed("eba_2_13")
    /\ Len(instance.contexts) = 2
    /\ instance.contexts[1].period.kind = "instant"
    /\ instance.contexts[2].period.kind = "instant"
    /\ instance.contexts[1].period.date # instance.contexts[2].period.date
    /\ Count(Text_2_13, <<"period", 1>>, 1) = 0
    /\ Count(Text_2_13, <<"period", 2>>, 1) = 1

(***************************************************************************)
(* C10  eba_3_1 single-currency check.                                     *)
(***************************************************************************)
SingleCurrencyDetail ==
    "An instance MUST express all monetary facts which do not fall under point (b) using a single currency."

\* number of single-currency findings of the last run on fact f
SingleCurrencyFindings(f) ==
    Cardinality({k \in 1..Len(LastRun) :
                    /\ LastRun[k].text = Text_3_1
                    /\ LastRun[k].args = << <<"fact", f>> >>
                    /\ LastRun[k].children[1].text = SingleCurrencyDetail})

IsMonetaryFact(f) == Concept(instance.facts[f].concept).monetary

\* the fact's context carries the currency dimension CUS
HasCurrencyQualifier(f) == instance.contexts[instance.facts[f].context].dims.CUS # ""

\* the fact's context carries CCA = x1 (currency of denomination, point (b))
IsDenominationFact(f) == instance.contexts[instance.facts[f].context].dims.CCA = "x1"

\* one finding for each fact of the set whose unit differs from the unit of
\* the first fact of the set, none for the others of the set
SingleCurrencyOver(set) ==
    \A f \in set :
        SingleCurrencyFindings(f)
        = (IF instance.facts[f].unit # instance.facts[Min(set)].unit THEN 1 ELSE 0)

\* C10 as stated: among the monetary facts that carry no currency-dimension
\* qualifier the unit of the first is the reference, and exactly one
\* single-currency finding is reported for each later one whose unit differs
\* from it, none for those that match.
C10_AsStated ==
    Completed("eba_3_1") =>
        SingleCurrencyOver({f \in 1..Len(instance.facts) :
                               IsMonetaryFact(f) /\ ~HasCurrencyQualifier(f)})

\* C10 amended: among the monetary facts that are not denomination facts
\* (their context does not carry CCA = x1, whether or not it carries CUS) the
\* unit of the first is the reference, exactly one single-currency finding is
\* reported for each later one whose unit differs from it and none for those
\* that match; denomination facts get no single-currency finding.
C10_SingleCurrency ==
    Completed("eba_3_1") =>
        /\ SingleCurrencyOver({f \in 1..Len(instance.facts) :
                                  IsMonetaryFact(f) /\ ~IsDenominationFact(f)})
        /\ \A f \in 1..Len(instance.facts) :
              IsDenominationFact(f) => SingleCurrencyFindings(f) = 0

\* a USD fact followed by a EUR fact, neither qualified: one finding, on the second
C10_Witness ==
    /\ Completed("eba_3_1")
    /\ Len(instance.facts) = 2
    /\ \A f \in 1..2 : IsMonetaryFact(f) /\ ~IsDenominationFact(f) /\ ~HasCurrencyQualifier(f)
    /\ iso4217_currency(instance.units[instance.facts[1].unit]) = "USD"
    /\ iso4217_currency(instance.units[instance.facts[2].unit]) = "EUR"
    /\ SingleCurrencyFindings(1) = 0
    /\ SingleCurrencyFindings(2) = 1

(***************************************************************************)
(* C11  eba_2_6: with the limit L configured by max-id-length (50 when the *)
(* parameter is absent), every context whose id is longer than L gets      *)
(* exactly one [EBA.2.6] warning and every context whose id has length L   *)
(* or less gets none; with L = 10 an id of length 11 gets one and an id of *)
(* length 10 none.                                                         *)
(***************************************************************************)
Text_2_6 == "[EBA.2.6] The length of the {id} attribute should be limited to the necessary characters."

\* the limit the parameter texts of the model stand for
ConfiguredIdLimit ==
    IF "max-id-length" \notin DOMAIN script_params THEN 50
    ELSE IF script_params["max-id-length"] = <<"1", "0">> THEN 10 ELSE 7

C11_IdLengthBoundary ==
    Completed("eba_2_6") =>
        \A i \in 1..Len(instance.contexts) :
            /\ Count(Text_2_6, <<"context/@id", i>>, 1)
                 = (IF instance.contexts[i].id_length > ConfiguredIdLimit THEN 1 ELSE 0)
            /\ \A n \in {0} \cup (2..3) : Count(Text_2_6, <<"context/@id", i>>, n) = 0

C11_Witness ==
    /\ Completed("eba_2_6")
    /\ "max-id-length" \in DOMAIN script_params
    /\ script_params["max-id-length"] = <<"1", "0">>
    /\ \E i, j \in 1..Len(instance.contexts) :
          /\ instance.contexts[i].id_length = 11
          /\ Count(Text_2_6, <<"context/@id", i>>, 1) = 1
          /\ instance.contexts[j].id_length = 10
          /\ Count(Text_2_6, <<"context/@id", j>>, 1) = 0

(***************************************************************************)
(* C12  Syntax checks report once per occurrence: eba_2_1 one finding for  *)
(* each xml:base attribute anywhere in the document, eba_1_14 one for each *)
(* xsi:schemaLocation or xsi:noNamespaceSchemaLocation attribute on the    *)
(* document element (two when both are present), eba_2_3 one for each      *)
(* schemaRef after the first, eba_2_4 one for each linkbaseRef, eba_2_25   *)
(* one for each footnote link, with or without footnote resources.         *)
(***************************************************************************)
Text_1_14 == "[EBA.1.14] @xsd:schemaLocation and @xsd:noNamespaceSchemaLocation."
Text_2_1 == "[EBA.2.1] The existence of {xml_base} is not permitted."
Text_2_3 == "[EBA.2.3] Only one {schemaRef} element is allowed per instance document."
Text_2_4 == "[EBA.2.4] The use of {linkbaseRef} element is not permitted."
Text_2_25 == "[EBA.2.25] XBRL {footnote} are ignored by EBA."

\* number of findings of the last run with the given message
CountText(text) == Cardinality({k \in 1..Len(LastRun) : LastRun[k].text = text})

\* positions of the attributes of an element with the given names
AttributesNamed(element, ns, names) ==
    {a \in 1..Len(element.attributes) :
        element.attributes[a].ns = ns /\ element.attributes[a].local_name \in names}

SchemaLocationAttributes ==
    AttributesNamed(instance.elements[DocumentElement], "xsi",
                    {"schemaLocation", "noNamespaceSchemaLocation"})

C12_OneFindingPerOccurrence ==
    Completed("eba_2_25") =>
        /\ \A e \in 1..Len(instance.elements) :
              \A a \in 1..Len(instance.elements[e].attributes) :
                 Cardinality({k \in 1..Len(LastRun) :
                                 /\ LastRun[k].text = Text_2_1
                                 /\ LastRun[k].args = << <<"element", e>>, <<"attribute", a>> >>})
                   = (IF a \in AttributesNamed(instance.elements[e], "xml", {"base"}) THEN 1 ELSE 0)
        /\ \A a \in 1..Len(instance.elements[DocumentElement].attributes) :
              CountAt(Text_1_14, <<"attribute", a>>) = (IF a \in SchemaLocationAttributes THEN 1 ELSE 0)
        /\ CountText(Text_1_14) = Cardinality(SchemaLocationAttributes)
        /\ \A r \in 1..Len(instance.schema_refs) :
              Count(Text_2_3, <<"schemaRef", r>>, 1) = (IF r > 1 THEN 1 ELSE 0)
        /\ \A r \in 1..Len(instance.linkbase_refs) : Count(Text_2_4, <<"linkbaseRef", r>>, 1) = 1
        /\ \A l \in 1..Len(instance.footnote_links) : Count(Text_2_25, <<"footnoteLink", l>>, 1) = 1
        /\ CountText(Text_2_25) = Len(instance.footnote_links)

(***************************************************************************)
(* C13  dfs(root) ends and yields the elements of the subtree of root,     *)
(* root included, each exactly once, in pre-order depth-first order: root  *)
(* first, and every element directly followed by all of its descendants.   *)
(* Each traversal of a run (eba_2_1, eba_3_9) walks the same sequence, and *)
(* the tree is never changed.                                              *)
(***************************************************************************)
Text_3_9 == "[EBA.3.9] Namespace prefix declaration {prefix} restricted to the document element."

\* the elements of the subtree of e, from the children fields alone
RECURSIVE Subtree(_, _)
Subtree(elements, e) ==
    {e} \cup UNION {Subtree(elements, elements[e].children[c]) : c \in 1..Len(elements[e].children)}

IsPreOrder(elements, order, root) ==
    /\ Range(order) = Subtree(elements, root)
    /\ Len(order) = Cardinality(Subtree(elements, root))
    /\ order[1] = root
    /\ \A i \in 1..Len(order) :
          LET size == Cardinality(Subtree(elements, order[i]))
          IN  /\ i + size - 1 <= Len(order)
              /\ {order[j] : j \in i..(i + size - 1)} = Subtree(elements, order[i])

\* the elements that the findings of the last run with the given message
\* name, in the order of the log
ElementsReported(text) ==
    LET hits == SelectSeq(LastRun, LAMBDA error : error.text = text)
    IN  [k \in 1..Len(hits) |-> hits[k].args[1][2]]

C13_TraversalOrder ==
    /\ \A e \in 1..Len(instance.elements) :
          IsPreOrder(instance.elements, dfs(instance.elements, e), e)
    /\ Completed("eba_3_9") /\ instance \in TreeInstances =>
          /\ IsPreOrder(instance.elements, ElementsReported(Text_2_1), DocumentElement)
          /\ ElementsReported(Text_2_1) = <<DocumentElement>> \o ElementsReported(Text_3_9)

C13_DepthFirst == [](C13_TraversalOrder) /\ [][instance' = instance]_vars

C13_Witness ==
    /\ Completed("eba_3_9")
    /\ instance \in TreeInstances
    /\ Len(ElementsReported(Text_2_1)) = 4
    /\ Len(ElementsReported(Text_3_9)) = 3
    /\ \E e \in 1..Len(instance.elements) :
          /\ Len(instance.elements[e].children) = 2
          /\ \E c \in Range(instance.elements[e].children) : instance.elements[c].children # <<>>

(***************************************************************************)
(* C14  eba_1_6: of the K filing-indicator facts with one normalized       *)
(* value the first in document order gets no [EBA.1.6.1] finding and each  *)
(* later one exactly one, K - 1 in all; the indicator of a value that      *)
(* occurs once gets none, and no other fact ever gets one.                 *)
(***************************************************************************)
Text_1_6_1 == "[EBA.1.6.1] Multiple filing indicators for the same reporting unit."

IndicatorsWithValue(value) ==
    {f \in 1..Len(instance.facts) :
        instance.facts[f].concept = FilingIndicator /\ instance.facts[f].normalized_value = value}

C14_DuplicateIndicators ==
    Completed("eba_1_6") =>
        /\ \A f \in 1..Len(instance.facts) :
              LET group == IndicatorsWithValue(instance.facts[f].normalized_value)
              IN  CountAt(Text_1_6_1, <<"fact", f>>) = (IF f \in group /\ f # Min(group) THEN 1 ELSE 0)
        /\ \A value \in {instance.facts[f].normalized_value : f \in 1..Len(instance.facts)} :
              IndicatorsWithValue(value) # {} =>
                 Cardinality({k \in 1..Len(LastRun) :
                                 /\ LastRun[k].text = Text_1_6_1
                                 /\ LastRun[k].location[2] \in IndicatorsWithValue(value)})
                   = Cardinality(IndicatorsWithValue(value)) - 1

C14_Witness ==
    /\ Completed("eba_1_6")
    /\ Cardinality(IndicatorsWithValue("C_01.00")) = 2
    /\ Cardinality(IndicatorsWithValue("C_02.00")) = 1
    /\ CountText(Text_1_6_1) = 1
    /\ \E f \in IndicatorsWithValue("C_01.00") :
          f # Min(IndicatorsWithValue("C_01.00")) /\ CountAt(Text_1_6_1, <<"fact", f>>) = 1

(***************************************************************************)
(* C15  eba_3_7: the referenced ids are the fragments (the text after '#') *)
(* of the hrefs of all locators of all footnote links, XPointer forms left *)
(* out, and an href without '#' gives none.  Every fact with an id outside *)
(* that set gets exactly one [EBA.3.7] warning; a fact without id or with  *)
(* a referenced id gets none.                                              *)
(***************************************************************************)
Text_3_7 == "[EBA.3.7] Unused {id} attribute on fact."

HasChar(text, char) == \E k \in 1..Len(text) : text[k] = char

\* the text after the last '#' of an href that has one
FragmentOf(href) ==
    LET last == CHOOSE k \in 1..Len(href) : href[k] = "#" /\ \A j \in (k + 1)..Len(href) : href[j] # "#"
    IN  SubSeq(href, last + 1, Len(href))

ReferencedIds ==
    LET hrefs == UNION {Range(instance.footnote_links[l].locators) : l \in 1..Len(instance.footnote_links)}
    IN  {FragmentOf(href) : href \in {h \in hrefs : HasChar(h, "#") /\ ~HasChar(FragmentOf(h), "(")}}

C15_UnusedFactIds ==
    Completed("eba_3_7") =>
        \A f \in 1..Len(instance.facts) :
            Count(Text_3_7, <<"fact/@id", f>>, 1)
              = (IF instance.facts[f].id # <<>> /\ instance.facts[f].id \notin ReferencedIds THEN 1 ELSE 0)

(***************************************************************************)
(* C16  eba_3_4: a prefixed namespace declaration on the document element  *)
(* gets exactly one [EBA.3.4] warning when its prefix is the prefix of no  *)
(* element name, attribute name or QName value anywhere in the tree, and   *)
(* none when some element, however deep, uses it; the default declaration  *)
(* xmlns never gets one.                                                   *)
(***************************************************************************)
Text_3_4 == "[EBA.3.4] Unused namespace prefix {prefix}."

PrefixUsedBy(prefix, element) ==
    \/ element.prefix = prefix
    \/ element.value_is_qname /\ element.value_prefix = prefix
    \/ \E a \in 1..Len(element.attributes) :
          \/ element.attributes[a].prefix = prefix
          \/ element.attributes[a].value_is_qname /\ element.attributes[a].value_prefix = prefix

PrefixUsed(prefix) ==
    \E e \in Subtree(instance.elements, DocumentElement) : PrefixUsedBy(prefix, instance.elements[e])

C16_UnusedPrefixes ==
    Completed("eba_3_4") =>
        LET nsattrs == instance.elements[DocumentElement].namespace_attributes
        IN  \A n \in 1..Len(nsattrs) :
               Count(Text_3_4, <<"nsattr", n>>, 1)
                 = (IF nsattrs[n].local_name # "xmlns" /\ ~PrefixUsed(nsattrs[n].local_name) THEN 1 ELSE 0)

C16_Witness ==
    /\ Completed("eba_3_4")
    /\ Len(instance.elements) = 3
    /\ LET nsattrs == instance.elements[DocumentElement].namespace_attributes
       IN  /\ nsattrs[1].local_name = "xmlns"
           /\ Count(Text_3_4, <<"nsattr", 1>>, 1) = 0
           /\ \E n, m \in 2..Len(nsattrs) :
                 /\ Count(Text_3_4, <<"nsattr", n>>, 1) = 1
                 /\ Count(Text_3_4, <<"nsattr", m>>, 1) = 0
                 /\ ~PrefixUsedBy(nsattrs[m].local_name, instance.elements[1])
                 /\ ~PrefixUsedBy(nsattrs[m].local_name, instance.elements[2])
                 /\ instance.elements[3].prefix # nsattrs[m].local_name
                 /\ PrefixUsedBy(nsattrs[m].local_name, instance.elements[3])

(***************************************************************************)
(* C17  on_xbrl_finished_dts sets options['utr'] to True and changes       *)
(* nothing else: every other option, the instance, the parameters and the  *)
(* log stay as they are.  on_xbrl_finished, with an instance or with None, *)
(* never writes the options.  So once options['utr'] is True it is True in *)
(* every later state.                                                      *)
(***************************************************************************)
UtrEnabled(opts) == "utr" \in DOMAIN opts /\ opts["utr"] = TRUE

C17_UtrOption ==
    [][/\ marks' = marks =>
             /\ UtrEnabled(options')
             /\ DOMAIN options' = DOMAIN options \cup {"utr"}
             /\ \A o \in DOMAIN options \ {"utr"} : options'[o] = options[o]
             /\ UNCHANGED <<instance, script_params, error_log, raised>>
       /\ marks' # marks => options' = options
       /\ UtrEnabled(options) => UtrEnabled(options')]_vars

C17_Witness ==
    /\ UtrEnabled(options)
    /\ options["xinclude"] = TRUE
    /\ Len(marks) = 2
    /\ error_log # <<>>

(***************************************************************************)
(* C18  A call of on_xbrl_finished with an instance only appends to the    *)
(* log: the log before the call is a prefix of the log after it, and the   *)
(* findings added follow the dispatch order, all findings of a rule before *)
(* all findings of every rule called after it.  Only a call with None in   *)
(* place of the instance ever removes a finding from the log.              *)
(***************************************************************************)
\* the rule that creates each message
FindingTexts ==
    {
      <<"eba_1_4",
         "[EBA.1.4] Character encoding of XBRL instance documents.">>,
      <<"eba_1_6",
         "[EBA.1.6] Filing indicators.">>,
      <<"eba_1_6",
         "[EBA.1.6.1] Multiple filing indicators for the same reporting unit.">>,
      <<"eba_1_6",
         "[EBA.1.6.3] Filing indicator codes.">>,
      <<"eba_1_13",
         "[EBA.1.13] Standalone Document Declaration.">>,
      <<"eba_1_14",
         "[EBA.1.14] @xsd:schemaLocation and @xsd:noNamespaceSchemaLocation.">>,
      <<"eba_1_15",
         "[EBA.1.15] XInclude.">>,
      <<"eba_2_1",
         "[EBA.2.1] The existence of {xml_base} is not permitted.">>,
      <<"eba_2_3",
         "[EBA.2.3] Only one {schemaRef} element is allowed per instance document.">>,
      <<"eba_2_4",
         "[EBA.2.4] The use of {linkbaseRef} element is not permitted.">>,
      <<"eba_2_25",
         "[EBA.2.25] XBRL {footnote} are ignored by EBA.">>,
      <<"eba_2_7",
         "[EBA.2.7] No unused or duplicated {context} nodes.">>,
      <<"eba_2_9",
         "[EBA.2.9] Single reporter per instance.">>,
      <<"eba_2_13",
         "[EBA.2.13] XBRL {period} consistency.">>,
      <<"eba_2_6",
         "[EBA.2.6] The length of the {id} attribute should be limited to the necessary characters.">>,
      <<"eba_2_10",
         "[EBA.2.10] The {period} date elements reported must be valid.">>,
      <<"eba_2_11",
         "[EBA.2.11] The existence of {forever} is not permitted.">>,
      <<"eba_2_14",
         "[EBA.2.14] The existence of {segment} is not permitted.">>,
      <<"eba_2_15",
         "[EBA.2.15] Restrictions on the use of the {scenario} element.">>,
      <<"eba_2_16",
         "[EBA.2.16] Duplicate (Redundant/Inconsistent) facts {fact} and {fact2}.">>,
      <<"eba_2_16",
         "[EBA.2.16.1] No multi-unit facts {fact} and {fact2}.">>,
      <<"eba_2_17",
         "[EBA.2.17] The use of the {precision} attribute is not permitted.">>,
      <<"eba_2_19",
         "[EBA.2.19] Guidance on use of zeros and non-reported data.">>,
      <<"eba_2_21",
         "[EBA.2.21] Duplicates of xbrli:xbrl/xbrli:unit.">>,
      <<"eba_2_22",
         "[EBA.2.22] Unused xbrli:xbrl/xbrli:unit.">>,
      <<"eba_3_1",
         "[EBA.3.1] Choice of Currency for Monetary fact {fact}.">>,
      <<"eba_3_2",
         "[EBA.3.2] Non-monetary numeric units.">>,
      <<"eba_3_4",
         "[EBA.3.4] Unused namespace prefix {prefix}.">>,
      <<"eba_3_5",
         "[EBA.3.5] Re-use of canonical namespace prefix {prefix}.">>,
      <<"eba_3_6",
         "[EBA.3.6] LEI and other entity codes.">>,
      <<"eba_3_7",
         "[EBA.3.7] Unused {id} attribute on fact.">>,
      <<"eba_3_8",
         "[EBA.3.8] Length of strings in instance.">>,
      <<"eba_3_9",
         "[EBA.3.9] Namespace prefix declaration {prefix} restricted to the document element.">>,
      <<"eba_3_10",
         "[EBA.3.10] Avoid multiple prefix declarations {prefix} and {prefix2} for the same namespace {namespace}.">> }

RuleOfText(text) == (CHOOSE pair \in FindingTexts : pair[2] = text)[1]

IsPrefix(s, t) == Len(s) <= Len(t) /\ SubSeq(t, 1, Len(s)) = s

InDispatchOrder(findings) ==
    \A i, j \in 1..Len(findings) :
        i < j => Index(RuleOfText(findings[i].text)) <= Index(RuleOfText(findings[j].text))

C18_AppendOnly ==
    [][/\ marks' # marks /\ ~instance.none =>
             /\ IsPrefix(error_log, error_log')
             /\ \A k \in (Len(error_log) + 1)..Len(error_log') :
                   error_log'[k].text \in {pair[2] : pair \in FindingTexts}
             /\ InDispatchOrder(SubSeq(error_log', Len(error_log) + 1, Len(error_log')))
       /\ ~IsPrefix(error_log, error_log') => marks' # marks /\ instance.none]_vars

\* a second run has added findings of several rules behind those of the first
C18_Witness ==
    /\ ~instance.none
    /\ Len(marks) = 2
    /\ 0 < marks[2]
    /\ marks[2] < Len(error_log)
    /\ \E i, j \in 1..Len(LastRun) : LastRun[i].text # LastRun[j].text

(***************************************************************************)
(* C19  The guard len(monetary_units) > 1 of eba_3_1 never suppresses a    *)
(* finding: in every instance whose facts use units of the instance, the   *)
(* single-currency findings of a run are, one for one and in order, those  *)
(* of the single-currency loop run without looking at the guard.           *)
(***************************************************************************)
\* the single-currency findings of the last run, in the order of the log
SingleCurrencyReported ==
    SelectSeq(LastRun, LAMBDA error :
        error.text = Text_3_1 /\ error.children[1].text = SingleCurrencyDetail)

\* the single-currency loop over the facts that are not denomination facts
SingleCurrencyUnguarded ==
    eba_3_1_loop(instance, FactSetDifference(ChildItems(instance), DenominationFacts(instance)), 0)

MonetaryUnits == {u \in 1..Len(instance.units) : is_monetary_unit(instance.units[u])}

C19_GuardSuppressesNothing ==
    Completed("eba_3_1") => SingleCurrencyReported = SingleCurrencyUnguarded

\* the guard skips the loop (one monetary unit, several monetary facts) and
\* the loop would have found nothing
C19_Witness ==
    /\ Completed("eba_3_1")
    /\ Cardinality(MonetaryUnits) = 1
    /\ Len(instance.units) = 2
    /\ Cardinality({f \in 1..Len(instance.facts) : IsMonetaryFact(f) /\ ~IsDenominationFact(f)}) >= 2
    /\ SingleCurrencyReported = <<>>
    /\ SingleCurrencyUnguarded = <<>>

====
